---- MODULE Spec2Model ----
(***************************************************************************)
(* A model of swaggrpc's operationAdapter (src/operation_adapter.go): the  *)
(* string converters, convertValues, the parameter writers, the            *)
(* construction of an adapter by newPathWrapper and one gRPC call handled  *)
(* by handleGRPCRequest.                                                   *)
(*                                                                         *)
(* Go strings that the code only copies are TLA+ strings; the parameter    *)
(* and field names, which newPathWrapper rewrites character by character,  *)
(* are sequences of one-character strings.  A Go value of type             *)
(* interface{} is a record [t |-> its dynamic type, v |-> its value].  A   *)
(* Go error is a string, Nil for the nil error.  A panic is an outcome of  *)
(* its own, never an error value.                                          *)
(***************************************************************************)
EXTENDS Integers, Sequences, FiniteSets, TLC

VARIABLES
    input,      \* SpecConv: the field descriptor, parameter and decoded message under test
    last,       \* SpecConv: the last function applied, its arguments and its result
    endpoints,  \* SpecBuild: per endpoint, the parameters handed to newPathWrapper and its result
    shared,     \* SpecBuild: what all endpoints share: the clients and the input message type
    adapter,    \* Spec: the operationAdapter the calls run on
    calls       \* Spec: per call, the position in handleGRPCRequest and its locals

vars == <<input, last, endpoints, shared, adapter, calls>>

---------------------------------------------------------------------------
(* Bounds of the model. *)

\* The longest repeated field, and the longest value sequence given to a writer.
MaxLen == 2
\* The most parameters of one endpoint.
MaxParams == 2
\* The largest enum ordinal a decoded message carries (the smallest is -1).
MaxOrdinal == 2

---------------------------------------------------------------------------
(* Go values. *)

Nil == "nil"

Str(s) == [t |-> "string", v |-> s]
I32(n) == [t |-> "int32", v |-> n]
Bool(b) == [t |-> "bool", v |-> b]
\* []interface{}: what GetField returns for a repeated field.
Slice(s) == [t |-> "slice", v |-> s]
\* map[interface{}]interface{}: what GetField returns for a map field.
MapOf(f) == [t |-> "map", v |-> f]
\* *dynamic.Message of type SubMessage {string subValue = 1}.
SubMessage(s) == [t |-> "message", v |-> s]
\* The nil interface value: GetField of a message field that is not set.
NilValue == [t |-> "nil", v |-> ""]

EmptyMap == [k \in {} |-> ""]

\* The outcome of a converter: a string, or a panic.
Returned(s) == [panic |-> FALSE, s |-> s]
Panicked == [panic |-> TRUE, s |-> ""]

---------------------------------------------------------------------------
(* Field descriptors (desc.FieldDescriptor): name, declared type, label and the map option. *)

NumericTypes ==
    {"TYPE_BOOL", "TYPE_INT64", "TYPE_UINT64", "TYPE_INT32", "TYPE_FIXED64",
     "TYPE_FIXED32", "TYPE_UINT32", "TYPE_SFIXED32", "TYPE_SFIXED64",
     "TYPE_SINT32", "TYPE_SINT64", "TYPE_DOUBLE", "TYPE_FLOAT"}

\* descriptor.FieldDescriptorProto_Type; TYPE_19 is a value the enum does not name.
FieldTypes ==
    NumericTypes \cup
    {"TYPE_MESSAGE", "TYPE_STRING", "TYPE_GROUP", "TYPE_BYTES", "TYPE_ENUM", "TYPE_19"}

Field(name, type, repeated, isMap, keyType) ==
    [name |-> name, type |-> type, repeated |-> repeated, isMap |-> isMap, keyType |-> keyType]

\* A map field is a repeated field of map-entry messages with the map option set.
MapField(name, keyType) == Field(name, "TYPE_MESSAGE", TRUE, TRUE, keyType)

IsMap(fieldDesc) == fieldDesc.isMap
IsRepeated(fieldDesc) == fieldDesc.repeated
GetType(fieldDesc) == fieldDesc.type

\* The Go type GetField decodes a field type to.
GoType(type) ==
    CASE type \in {"TYPE_INT32", "TYPE_SINT32", "TYPE_SFIXED32", "TYPE_ENUM"} -> "int32"
      [] type \in {"TYPE_INT64", "TYPE_SINT64", "TYPE_SFIXED64"} -> "int64"
      [] type \in {"TYPE_UINT32", "TYPE_FIXED32"} -> "uint32"
      [] type \in {"TYPE_UINT64", "TYPE_FIXED64"} -> "uint64"
      [] type = "TYPE_DOUBLE" -> "float64"
      [] type = "TYPE_FLOAT" -> "float32"
      [] type = "TYPE_BOOL" -> "bool"
      [] type = "TYPE_STRING" -> "string"
      [] type = "TYPE_BYTES" -> "bytes"
      [] OTHER -> "message"

---------------------------------------------------------------------------
(* Parameters (spec.Parameter): Name, In and the Enum validator list. *)

Param(name, in, enum) == [Name |-> name, In |-> in, Enum |-> enum]

---------------------------------------------------------------------------
(* getStringConverter: the converter chosen for a field, and what each converter does. *)

Digit(d) ==
    CASE d = 0 -> "0" [] d = 1 -> "1" [] d = 2 -> "2" [] d = 3 -> "3" [] d = 4 -> "4"
      [] d = 5 -> "5" [] d = 6 -> "6" [] d = 7 -> "7" [] d = 8 -> "8" [] d = 9 -> "9"

RECURSIVE FormatNat(_)
FormatNat(n) == IF n < 10 THEN Digit(n) ELSE FormatNat(n \div 10) \o Digit(n % 10)

\* fmt.Sprintf("%v", value) of a boolean or of a whole number.
Sprintf_v(value) ==
    IF value.t = "bool" THEN (IF value.v THEN "true" ELSE "false")
    ELSE IF value.v < 0 THEN "-" \o FormatNat(0 - value.v)
    ELSE FormatNat(value.v)

\* The keys a map of the model can hold, in the byte order json.Marshal sorts them in.
MapKeyOrder == <<"bar", "foo">>

\* json.Marshal of one value of a map or of a field: a number or a quoted string.
MarshalScalar(value) ==
    IF value.t = "string" THEN "\"" \o value.v \o "\"" ELSE Sprintf_v(value)

RECURSIVE MarshalEntries(_, _, _)
MarshalEntries(converted, i, first) ==
    IF i > Len(MapKeyOrder) THEN ""
    ELSE IF MapKeyOrder[i] \in DOMAIN converted
    THEN (IF first THEN "" ELSE ",")
         \o "\"" \o MapKeyOrder[i] \o "\":" \o MarshalScalar(converted[MapKeyOrder[i]])
         \o MarshalEntries(converted, i + 1, FALSE)
    ELSE MarshalEntries(converted, i + 1, first)

\* json.Marshal of a map[string]interface{}: one object, its keys sorted.
MarshalMap(converted) == "{" \o MarshalEntries(converted, 1, TRUE) \o "}"

\* json.Marshal of a message field's value: the message as a JSON object (a field
\* holding its default is left out), null for the nil interface.
MarshalMessage(value) ==
    IF value.t = "nil" THEN "null"
    ELSE IF value.v = "" THEN "{}"
    ELSE "{\"subValue\":\"" \o value.v \o "\"}"

\* The map converter asserting every key to be a string: key.(string) without the
\* test of ok panics on any other key.
MapConverter_KeyAssertion(value) ==
    IF value.t # "map" THEN Returned("")
    ELSE IF \E key \in DOMAIN value.v : key.t # "string" THEN Panicked
    ELSE LET convertedValue ==
                 [keyString \in {key.v : key \in DOMAIN value.v} |-> value.v[Str(keyString)]]
         IN  Returned(MarshalMap(convertedValue))

\* The closure returned for a map field.
MapConverter(value) ==
    IF value.t # "map" THEN Returned("")
    ELSE IF \E key \in DOMAIN value.v : key.t # "string" THEN Returned("")
    ELSE LET convertedValue ==
                 [keyString \in {key.v : key \in DOMAIN value.v} |-> value.v[Str(keyString)]]
         IN  Returned(MarshalMap(convertedValue))

\* The closure returned for TYPE_MESSAGE.
MessageConverter(value) == Returned(MarshalMessage(value))

\* The closure returned for the boolean and numeric types.
NumericConverter(value) == Returned(Sprintf_v(value))

\* The closure returned for TYPE_STRING: value.(string) panics on any other type.
PlainStringConverter(value) ==
    IF value.t = "string" THEN Returned(value.v) ELSE Panicked

\* The enum converter with the ordinal used as a 1-based index.
EnumConverter_OneBased(param, value) ==
    IF value.t # "int32" THEN Panicked
    ELSE LET rawValue == value.v
         IN  IF rawValue >= Len(param.Enum) THEN Returned("")
             ELSE IF rawValue <= 0 THEN Panicked
             ELSE LET element == param.Enum[rawValue]
                  IN  IF element.t # "string" THEN Returned("") ELSE Returned(element.v)

\* The closure returned for TYPE_ENUM.  value.(int32) panics on any other type and
\* param.Enum[rawValue] panics when rawValue is not an index of param.Enum; Go
\* indexes from 0, a TLA+ sequence from 1.
EnumConverter(param, value) ==
    IF value.t # "int32" THEN Panicked
    ELSE LET rawValue == value.v
         IN  IF rawValue >= Len(param.Enum) THEN Returned("")
             ELSE IF rawValue < 0 THEN Panicked
             ELSE LET element == param.Enum[rawValue + 1]
                  IN  IF element.t # "string" THEN Returned("") ELSE Returned(element.v)

\* getStringConverter: (converter, error).  The converter is named by its kind; the
\* enum converter captures param.
getStringConverter(fieldDesc, param) ==
    IF IsMap(fieldDesc) THEN [conv |-> "map", param |-> param, err |-> Nil]
    ELSE LET type == GetType(fieldDesc)
         IN  CASE type = "TYPE_MESSAGE" -> [conv |-> "message", param |-> param, err |-> Nil]
               [] type \in NumericTypes -> [conv |-> "numeric", param |-> param, err |-> Nil]
               [] type = "TYPE_STRING" -> [conv |-> "string", param |-> param, err |-> Nil]
               [] type = "TYPE_GROUP" ->
                      [conv |-> "none", param |-> param, err |-> "got proto2-only type 'group'"]
               [] type = "TYPE_BYTES" ->
                      [conv |-> "none", param |-> param, err |-> "bytes not implemented"]
               [] type = "TYPE_ENUM" -> [conv |-> "enum", param |-> param, err |-> Nil]
               [] OTHER -> [conv |-> "none", param |-> param, err |-> "unhandled field type"]

\* A call of the converter getStringConverter returned.
toString(stringConverter, value) ==
    CASE stringConverter.conv = "map" -> MapConverter(value)
      [] stringConverter.conv = "message" -> MessageConverter(value)
      [] stringConverter.conv = "numeric" -> NumericConverter(value)
      [] stringConverter.conv = "string" -> PlainStringConverter(value)
      [] stringConverter.conv = "enum" -> EnumConverter(stringConverter.param, value)

---------------------------------------------------------------------------
(* convertValues *)

\* message.GetField(fieldDesc): the message is a function from field names to values.
GetField(message, fieldDesc) == message[fieldDesc.name]

\* convertValues without the IsMap test: a map field, which reports as repeated, is
\* asserted to be a slice.
convertValues_MapAsRepeated(message, fieldDesc, stringConverter) ==
    LET rawValue == GetField(message, fieldDesc)
        asSlice == IsRepeated(fieldDesc)
        values == IF ~asSlice THEN <<rawValue>>
                  ELSE IF rawValue.t = "slice" THEN rawValue.v ELSE <<>>
        results == [i \in 1..Len(values) |-> toString(stringConverter, values[i])]
    IN  IF (asSlice /\ rawValue.t # "slice") \/ (\E i \in 1..Len(values) : results[i].panic)
        THEN [panic |-> TRUE, values |-> <<>>]
        ELSE [panic |-> FALSE, values |-> [i \in 1..Len(values) |-> results[i].s]]

\* The string slice convertValues returns; it panics when a call of toString does.
convertValues(message, fieldDesc, stringConverter) ==
    LET rawValue == GetField(message, fieldDesc)
        asSlice == IsRepeated(fieldDesc) /\ ~IsMap(fieldDesc)
        values == IF ~asSlice THEN <<rawValue>>
                  ELSE IF rawValue.t = "slice" THEN rawValue.v ELSE <<>>
        results == [i \in 1..Len(values) |-> toString(stringConverter, values[i])]
    IN  IF (asSlice /\ rawValue.t # "slice") \/ (\E i \in 1..Len(values) : results[i].panic)
        THEN [panic |-> TRUE, values |-> <<>>]
        ELSE [panic |-> FALSE, values |-> [i \in 1..Len(values) |-> results[i].s]]

---------------------------------------------------------------------------
(* The outbound request (runtime.ClientRequest) and getParamWriter. *)

\* A request nothing has been written to: no query values, headers or path
\* parameters, and no body.
NewRequest ==
    [query |-> EmptyMap, header |-> EmptyMap, path |-> EmptyMap,
     body |-> [set |-> FALSE, content |-> ""]]

\* The set operations of runtime.ClientRequest.  Each returns an error; setErr is the
\* error this call of it returns, and a call that fails leaves the request as it was.
SetQueryParam(request, name, values, setErr) ==
    IF setErr # Nil THEN request
    ELSE [request EXCEPT !.query = (name :> values) @@ request.query]

SetHeaderParam(request, name, values, setErr) ==
    IF setErr # Nil THEN request
    ELSE [request EXCEPT !.header = (name :> values) @@ request.header]

SetPathParam(request, name, value, setErr) ==
    IF setErr # Nil THEN request
    ELSE [request EXCEPT !.path = (name :> value) @@ request.path]

\* The payload is a reader over the string: the string itself, not encoded again.
SetBodyParam(request, payload, setErr) ==
    IF setErr # Nil THEN request
    ELSE [request EXCEPT !.body = [set |-> TRUE, content |-> payload]]

\* The outcome of a writer: the request after it and the error it returned, or a panic.
Wrote(request, err) == [panic |-> FALSE, err |-> err, request |-> request]
WriterPanicked(request) == [panic |-> TRUE, err |-> Nil, request |-> request]

\* getParamWriter with formData parameters written as query parameters.
getParamWriter_FormDataAsQuery(param) ==
    CASE param.In \in {"query", "formData"} -> [writer |-> "query", param |-> param, err |-> Nil]
      [] param.In = "header" -> [writer |-> "header", param |-> param, err |-> Nil]
      [] param.In = "path" -> [writer |-> "path", param |-> param, err |-> Nil]
      [] param.In = "body" -> [writer |-> "body", param |-> param, err |-> Nil]
      [] OTHER -> [writer |-> "none", param |-> param, err |-> "Unknown parameter location"]

\* getParamWriter: (writer, error).  The writer is named by its location and captures
\* param.
getParamWriter(param) ==
    CASE param.In = "query" -> [writer |-> "query", param |-> param, err |-> Nil]
      [] param.In = "header" -> [writer |-> "header", param |-> param, err |-> Nil]
      [] param.In = "path" -> [writer |-> "path", param |-> param, err |-> Nil]
      [] param.In = "body" -> [writer |-> "body", param |-> param, err |-> Nil]
      [] param.In = "formData" ->
             [writer |-> "none", param |-> param, err |-> "formData parameters are not supported"]
      [] param.In = "cookie" ->
             [writer |-> "none", param |-> param,
              err |-> "swagger 3.0 cookie parameters are not supported"]
      [] OTHER -> [writer |-> "none", param |-> param, err |-> "Unknown parameter location"]

\* The query writer passing on the first value only.
QueryWriter_FirstOnly(param, values, request, setErr) ==
    Wrote(SetQueryParam(request, param.Name,
                        IF Len(values) <= 1 THEN values ELSE <<values[1]>>, setErr), setErr)

\* The closures returned for "query" and "header": every value, as given.
QueryWriter(param, values, request, setErr) ==
    Wrote(SetQueryParam(request, param.Name, values, setErr), setErr)

HeaderWriter(param, values, request, setErr) ==
    Wrote(SetHeaderParam(request, param.Name, values, setErr), setErr)

\* The path writer writing the last value instead of values[0].
PathWriter_LastValue(param, values, request, setErr) ==
    IF Len(values) = 0 THEN WriterPanicked(request)
    ELSE Wrote(SetPathParam(request, param.Name, values[Len(values)], setErr), setErr)

\* The closures returned for "path" and "body": values[0], which panics on an empty
\* slice; more than one value is only logged.
PathWriter(param, values, request, setErr) ==
    IF Len(values) = 0 THEN WriterPanicked(request)
    ELSE Wrote(SetPathParam(request, param.Name, values[1], setErr), setErr)

BodyWriter(param, values, request, setErr) ==
    IF Len(values) = 0 THEN WriterPanicked(request)
    ELSE Wrote(SetBodyParam(request, values[1], setErr), setErr)

\* A call of the writer getParamWriter returned.
paramWriter(writer, values, request, setErr) ==
    CASE writer.writer = "query" -> QueryWriter(writer.param, values, request, setErr)
      [] writer.writer = "header" -> HeaderWriter(writer.param, values, request, setErr)
      [] writer.writer = "path" -> PathWriter(writer.param, values, request, setErr)
      [] writer.writer = "body" -> BodyWriter(writer.param, values, request, setErr)

---------------------------------------------------------------------------
(* operationAdapter and newPathWrapper. *)

\* strings.Replace with n = 1: the first hyphen only.
ReplaceHyphens_FirstOnly(name) ==
    [i \in 1..Len(name) |->
        IF name[i] = "-" /\ (\A j \in 1..(i - 1) : name[j] # "-") THEN "_" ELSE name[i]]

\* strings.Replace(name, "-", "_", -1): every hyphen becomes an underscore.
ReplaceHyphens(name) == [i \in 1..Len(name) |-> IF name[i] = "-" THEN "_" ELSE name[i]]

\* The nil *desc.FieldDescriptor.
NilField == Field(<<>>, "nil", FALSE, FALSE, "")

\* inputProtoType.FindFieldByName: the field of the name, nil when there is none.
FindFieldByName(messageType, fieldName) ==
    IF \E fieldDesc \in messageType.fields : fieldDesc.name = fieldName
    THEN CHOOSE fieldDesc \in messageType.fields : fieldDesc.name = fieldName
    ELSE NilField

\* The nil *operationAdapter.
NilAdapter == [isNil |-> TRUE]

\* The closure appended to paramWriters: it captures the field, the converter and
\* the parameter writer.
swaggerParamWriter(bound, message, request, setErr) ==
    LET stringValues == convertValues(message, bound.fieldDesc, bound.stringConverter)
    IN  IF stringValues.panic THEN WriterPanicked(request)
        ELSE paramWriter(bound.paramWriter, stringValues.values, request, setErr)

\* The loop of newPathWrapper over the parameters, in the order the map iteration
\* yields them: the writers appended so far, or the first error.
RECURSIVE BindParameters(_, _, _)
BindParameters(inputProtoType, parameters, paramWriters) ==
    IF parameters = <<>> THEN [paramWriters |-> paramWriters, err |-> Nil]
    ELSE LET param == Head(parameters)
             fieldName == ReplaceHyphens(param.Name)
             fieldDesc == FindFieldByName(inputProtoType, fieldName)
             stringConverter == getStringConverter(fieldDesc, param)
             writer == getParamWriter(param)
         IN  IF fieldDesc = NilField
             THEN [paramWriters |-> <<>>, err |-> "Could not find proto field"]
             ELSE IF stringConverter.err # Nil
             THEN [paramWriters |-> <<>>, err |-> stringConverter.err]
             ELSE IF writer.err # Nil
             THEN [paramWriters |-> <<>>, err |-> writer.err]
             ELSE BindParameters(inputProtoType, Tail(parameters),
                      Append(paramWriters,
                             [fieldDesc |-> fieldDesc, stringConverter |-> stringConverter,
                              paramWriter |-> writer]))

\* newPathWrapper: (adapter, error).  parameters is the map's values in the order
\* its iteration yields them.
newPathWrapper(httpClient, swaggerClient, httpMethod, swaggerPath, parameters, method) ==
    LET bound == BindParameters(method.inputType, parameters, <<>>)
    IN  IF bound.err # Nil THEN [adapter |-> NilAdapter, err |-> bound.err]
        ELSE [adapter |->
                  [isNil |-> FALSE, httpClient |-> httpClient, swaggerClient |-> swaggerClient,
                   httpMethod |-> httpMethod, swaggerPath |-> swaggerPath,
                   paramWriters |-> bound.paramWriters,
                   inputProtoType |-> method.inputType, outputProtoType |-> method.outputType],
              err |-> Nil]

---------------------------------------------------------------------------
(* getRequestWriter, ReadResponse and handleGRPCRequest.  One call is a record: *)
(* its position pc, the locals of handleGRPCRequest and what it did so far.     *)

\* dynamic.NewMessage: every field holds its zero value.
ZeroValue(fieldDesc) ==
    IF IsMap(fieldDesc) THEN MapOf(EmptyMap)
    ELSE IF IsRepeated(fieldDesc) THEN Slice(<<>>)
    ELSE CASE GetType(fieldDesc) = "TYPE_STRING" -> Str("")
           [] GetType(fieldDesc) = "TYPE_BOOL" -> Bool(FALSE)
           [] GetType(fieldDesc) \in NumericTypes \cup {"TYPE_ENUM"} /\ GetType(fieldDesc) # "TYPE_BOOL" ->
                  [t |-> GoType(GetType(fieldDesc)), v |-> 0]
           [] GetType(fieldDesc) = "TYPE_BYTES" -> [t |-> "bytes", v |-> ""]
           [] OTHER -> NilValue

NewMessage(messageType) ==
    [name \in {fieldDesc.name : fieldDesc \in messageType.fields} |->
        ZeroValue(CHOOSE fieldDesc \in messageType.fields : fieldDesc.name = name)]

\* A call that has not started: nothing received, submitted or sent.
NewCall ==
    [pc |-> "start", protoIn |-> EmptyMap, request |-> NewRequest, ran |-> <<>>,
     submits |-> 0, httpSent |-> 0, body |-> [wellFormed |-> FALSE, v |-> "", extra |-> FALSE],
     protoOut |-> EmptyMap, sends |-> 0, sent |-> EmptyMap,
     recvErr |-> Nil, submitErr |-> Nil, ret |-> Nil]

\* handleGRPCRequest logging the error of RecvMsg and going on.
RecvMsg_IgnoresError(call, message, err) ==
    [call EXCEPT !.recvErr = err, !.protoIn = message, !.pc = "submit"]

\* handleGRPCRequest up to the return after RecvMsg: stream.RecvMsg fills protoIn
\* with message or returns err.
RecvMsg(call, message, err) ==
    IF err # Nil
    THEN [call EXCEPT !.recvErr = err, !.ret = err, !.pc = "returned"]
    ELSE [call EXCEPT !.protoIn = message, !.pc = "submit"]

\* The call of swaggerClient.Submit with Params: p.getRequestWriter(protoIn).  The
\* client makes a request of the operation and hands it to the request writer.
Submit(call) ==
    [call EXCEPT !.submits = @ + 1, !.request = NewRequest, !.pc = "writers"]

\* The loop of getRequestWriter going on after a writer's error.
RunWriter_IgnoresError(p, msg, request, i, setErr) ==
    LET out == swaggerParamWriter(p.paramWriters[i], msg, request, setErr)
    IN  [panic |-> out.panic, err |-> out.err, request |-> out.request, return |-> FALSE]

\* One round of the loop of getRequestWriter: writer i is run, and the loop returns
\* its error when it is not nil.
RunWriter(p, msg, request, i, setErr) ==
    LET out == swaggerParamWriter(p.paramWriters[i], msg, request, setErr)
    IN  [panic |-> out.panic, err |-> out.err, request |-> out.request,
         return |-> out.err # Nil]

\* The round within the call: an error returned by the request writer is returned
\* by Submit and then by handleGRPCRequest; a panic ends the call without a return.
WriterRound(p, call, setErr) ==
    LET i == Len(call.ran) + 1
        round == RunWriter(p, call.protoIn, call.request, i, setErr)
        ran == Append(call.ran, [index |-> i, err |-> round.err, panic |-> round.panic])
    IN  IF round.panic THEN [call EXCEPT !.ran = ran, !.pc = "panicked"]
        ELSE IF round.return
        THEN [call EXCEPT !.ran = ran, !.request = round.request, !.submitErr = round.err,
                          !.ret = round.err, !.pc = "returned"]
        ELSE [call EXCEPT !.ran = ran, !.request = round.request]

\* The loop of getRequestWriter from writer i on, the request accepting every
\* value set on it: the rounds run in the order of paramWriters until one panics
\* or returns an error.
RECURSIVE RunWritersFrom(_, _, _, _)
RunWritersFrom(p, msg, request, i) ==
    IF i > Len(p.paramWriters) THEN [panic |-> FALSE, err |-> Nil, request |-> request]
    ELSE LET round == RunWriter(p, msg, request, i, Nil)
         IN  IF round.panic \/ round.return
             THEN [panic |-> round.panic, err |-> round.err, request |-> round.request]
             ELSE RunWritersFrom(p, msg, round.request, i + 1)

\* The request writer getRequestWriter(protoIn) returns, run on a request.
getRequestWriter(p, protoIn, request) == RunWritersFrom(p, protoIn, request, 1)

\* The request writer returned nil: the client sends the HTTP request, and the
\* transport returns err or a response with the body.
Transport(call, body, err) ==
    IF err # Nil
    THEN [call EXCEPT !.httpSent = @ + 1, !.submitErr = err, !.ret = err, !.pc = "returned"]
    ELSE [call EXCEPT !.httpSent = @ + 1, !.body = body, !.pc = "read"]

\* permissiveJSONUnmarshaler.Unmarshal into the message: a field the message type
\* does not have is skipped, a body that is no JSON object is an error.
Unmarshal(body, message) ==
    IF ~body.wellFormed THEN [message |-> message, err |-> "unmarshal failed"]
    ELSE [message |-> [message EXCEPT ![<<"v">>] = Str(body.v)], err |-> Nil]

\* ReadResponse: (protoOut, err) of a new output message and the unmarshalling.
ReadResponse(p, body) == Unmarshal(body, NewMessage(p.outputProtoType))

\* handleGRPCRequest sending the result whatever error Submit returned with it.
SubmitReturned_IgnoresError(call, result, err) ==
    [call EXCEPT !.submitErr = err, !.protoOut = result, !.pc = "send"]

\* handleGRPCRequest after Submit returned what ReadResponse returned.
SubmitReturned(call, result, err) ==
    IF err # Nil THEN [call EXCEPT !.submitErr = err, !.ret = err, !.pc = "returned"]
    ELSE [call EXCEPT !.protoOut = result, !.pc = "send"]

\* return stream.SendMsg(resultMessage)
SendMsg(call, err) ==
    [call EXCEPT !.sends = @ + 1, !.sent = call.protoOut, !.ret = err, !.pc = "returned"]

---------------------------------------------------------------------------
(* The inputs the functions are applied to. *)

\* Sequences over a set, up to a length.
SeqsUpTo(S, n) == UNION {[1..k -> S] : k \in 0..n}

\* Parameter locations: the six of the swagger specifications and one that is none of them.
Locations == {"query", "header", "path", "body", "formData", "cookie", "matrix"}

\* The values one element of a field of the type can decode to.  An enum field
\* decodes to any int32, whether or not the enum declares it; a floating-point
\* field is given whole numbers only.
ElementValues(type) ==
    CASE type = "TYPE_BOOL" -> {Bool(TRUE), Bool(FALSE)}
      [] type = "TYPE_STRING" -> {Str("foo"), Str("bar")}
      [] type = "TYPE_ENUM" -> {I32(n) : n \in (0 - 1)..MaxOrdinal}
      [] type \in {"TYPE_UINT32", "TYPE_FIXED32", "TYPE_UINT64", "TYPE_FIXED64"} ->
             {[t |-> GoType(type), v |-> n] : n \in {0, 1234}}
      [] type \in NumericTypes \ {"TYPE_BOOL", "TYPE_UINT32", "TYPE_FIXED32", "TYPE_UINT64",
                                  "TYPE_FIXED64"} ->
             {[t |-> GoType(type), v |-> n] : n \in {0 - 45, 1234}}
      [] type = "TYPE_BYTES" -> {[t |-> "bytes", v |-> ""]}
      [] OTHER -> {NilValue, SubMessage("str")}

\* The values GetField can return for a field: a map for a map field, a slice for
\* a repeated field, one element otherwise.
MapValues(keyType) ==
    LET keys == IF keyType = "TYPE_STRING" THEN {Str("bar"), Str("foo")} ELSE {I32(1), I32(2)}
    IN  {MapOf(f) : f \in UNION {[D -> {I32(1), I32(2)}] : D \in SUBSET keys}}

FieldValues(fieldDesc) ==
    IF IsMap(fieldDesc) THEN MapValues(fieldDesc.keyType)
    ELSE IF IsRepeated(fieldDesc)
    THEN {Slice(s) : s \in SeqsUpTo(ElementValues(GetType(fieldDesc)), MaxLen)}
    ELSE ElementValues(GetType(fieldDesc))

\* Enum validator lists: none, two strings, and one with an element that is no string.
EnumLists ==
    {<<>>, <<Str("first"), Str("second")>>, <<Str("first"), [t |-> "float64", v |-> 7]>>}

\* The string slices a writer is called with.
StringValues == SeqsUpTo({"a", "b"}, MaxLen)

\* The errors a set operation of the request returns.
SetErrors == {Nil, "set failed"}

---------------------------------------------------------------------------
(* SpecConv: the converters, convertValues and the parameter writers, each applied *)
(* to every input of the bounded sets.                                            *)

ConvName == <<"f">>

\* Every field type, singular and repeated, and a map with string and with int32 keys.
ConvFields ==
    {Field(ConvName, type, repeated, FALSE, "") : type \in FieldTypes, repeated \in BOOLEAN}
    \cup {MapField(ConvName, keyType) : keyType \in {"TYPE_STRING", "TYPE_INT32"}}

\* param.Enum is read by the enum converter only: the other fields get the empty list.
EnumListsFor(fieldDesc) ==
    IF GetType(fieldDesc) = "TYPE_ENUM" /\ ~IsMap(fieldDesc) THEN EnumLists ELSE {<<>>}

\* A field, a parameter for it and a message holding a value of the field's type.
ConvInputs ==
    UNION {{[fieldDesc |-> fieldDesc, param |-> Param(ConvName, in, enum),
             message |-> (ConvName :> value)] :
               in \in Locations, enum \in EnumListsFor(fieldDesc),
               value \in FieldValues(fieldDesc)} : fieldDesc \in ConvFields}

NoLast ==
    [op |-> "none", arg |-> NilValue, values |-> <<>>, setErr |-> Nil,
     result |-> Returned(""), strings |-> [panic |-> FALSE, values |-> <<>>],
     wrote |-> Wrote(NewRequest, Nil)]

Unused == "unused"

InitConv ==
    /\ input \in ConvInputs
    /\ last = NoLast
    /\ endpoints = Unused
    /\ shared = Unused
    /\ adapter = Unused
    /\ calls = Unused

\* The values convertValues passes to toString, one at a time.
ApplyConverter ==
    LET stringConverter == getStringConverter(input.fieldDesc, input.param)
        rawValue == GetField(input.message, input.fieldDesc)
        arguments == IF rawValue.t = "slice" THEN {rawValue.v[i] : i \in 1..Len(rawValue.v)}
                     ELSE {rawValue}
    IN  /\ stringConverter.err = Nil
        /\ \E value \in arguments :
               last' = [NoLast EXCEPT !.op = "toString", !.arg = value,
                                      !.result = toString(stringConverter, value)]
        /\ UNCHANGED <<input, endpoints, shared, adapter, calls>>

ApplyConvertValues ==
    LET stringConverter == getStringConverter(input.fieldDesc, input.param)
    IN  /\ stringConverter.err = Nil
        /\ last' = [NoLast EXCEPT !.op = "convertValues",
                        !.strings = convertValues(input.message, input.fieldDesc, stringConverter)]
        /\ UNCHANGED <<input, endpoints, shared, adapter, calls>>

ApplyParamWriter ==
    LET writer == getParamWriter(input.param)
    IN  /\ writer.err = Nil
        /\ \E values \in StringValues, setErr \in SetErrors :
               last' = [NoLast EXCEPT !.op = "paramWriter", !.values = values, !.setErr = setErr,
                                      !.wrote = paramWriter(writer, values, NewRequest, setErr)]
        /\ UNCHANGED <<input, endpoints, shared, adapter, calls>>

NextConv == ApplyConverter \/ ApplyConvertValues \/ ApplyParamWriter

SpecConv == InitConv /\ [][NextConv]_vars

---------------------------------------------------------------------------
(* SpecBuild: newPathWrapper called once for each of two endpoints of one service, *)
(* in either order, with every parameter map of the bounded catalogue and every   *)
(* order of iterating it.                                                         *)

\* The input message type of the method: one field of each kind.
InputType ==
    [name |-> "Input",
     fields |->
        {Field(<<"s">>, "TYPE_STRING", FALSE, FALSE, ""),
         Field(<<"r", "_", "s">>, "TYPE_STRING", TRUE, FALSE, ""),
         Field(<<"e">>, "TYPE_ENUM", FALSE, FALSE, ""),
         Field(<<"a", "_", "b", "_", "c">>, "TYPE_INT32", FALSE, FALSE, ""),
         Field(<<"o">>, "TYPE_MESSAGE", FALSE, FALSE, ""),
         Field(<<"b">>, "TYPE_BYTES", FALSE, FALSE, ""),
         Field(<<"g">>, "TYPE_GROUP", FALSE, FALSE, ""),
         Field(<<"u">>, "TYPE_19", FALSE, FALSE, ""),
         MapField(<<"m">>, "TYPE_STRING"),
         MapField(<<"n">>, "TYPE_INT32")}]

OutputType ==
    [name |-> "Output", fields |-> {Field(<<"v">>, "TYPE_STRING", FALSE, FALSE, "")}]

\* The desc.MethodDescriptor: GetInputType and GetOutputType.
Method == [inputType |-> InputType, outputType |-> OutputType]

\* What the endpoints of a service share.
SharedState == [httpClient |-> "httpClient", swaggerClient |-> "swaggerClient", method |-> Method]

Endpoints == {"A", "B"}
HttpMethodOf(e) == IF e = "A" THEN "GET" ELSE "POST"
SwaggerPathOf(e) == IF e = "A" THEN "/a/{r-s}" ELSE "/b"

\* The parameters an endpoint's map is drawn from: each supported location with a
\* field it can carry, each unsupported location, each unsupported field kind and a
\* name no field has.
BuildParams ==
    {Param(<<"s">>, "query", <<>>),
     Param(<<"a", "-", "b", "-", "c">>, "header", <<>>),
     Param(<<"r", "-", "s">>, "path", <<>>),
     Param(<<"m">>, "body", <<>>),
     Param(<<"e">>, "query", <<Str("first"), Str("second")>>),
     Param(<<"s">>, "formData", <<>>),
     Param(<<"s">>, "cookie", <<>>),
     Param(<<"s">>, "matrix", <<>>),
     Param(<<"b">>, "query", <<>>),
     Param(<<"g">>, "query", <<>>),
     Param(<<"u">>, "query", <<>>),
     Param(<<"z", "-", "z">>, "query", <<>>)}

\* The orders in which a map of the parameters can be iterated.
IterationOrders(parameters) ==
    {order \in [1..Cardinality(parameters) -> parameters] :
        \A i, j \in 1..Cardinality(parameters) : order[i] = order[j] => i = j}

ParameterMaps(catalogue) == {S \in SUBSET catalogue : Cardinality(S) <= MaxParams}

NotBuilt == [built |-> FALSE, parameters |-> {}, adapter |-> NilAdapter, err |-> Nil]

InitBuild ==
    /\ endpoints = [e \in Endpoints |-> NotBuilt]
    /\ shared = SharedState
    /\ input = Unused
    /\ last = Unused
    /\ adapter = Unused
    /\ calls = Unused

\* The service constructs endpoint e: one call of newPathWrapper, with a map of
\* parameters that the loop iterates in some order.
BuildEndpoint(e) ==
    /\ ~endpoints[e].built
    /\ \E parameters \in ParameterMaps(BuildParams) :
           \E order \in IterationOrders(parameters) :
               LET made == newPathWrapper(shared.httpClient, shared.swaggerClient,
                                          HttpMethodOf(e), SwaggerPathOf(e), order, shared.method)
               IN  endpoints' = [endpoints EXCEPT ![e] =
                                    [built |-> TRUE, parameters |-> parameters,
                                     adapter |-> made.adapter, err |-> made.err]]
    /\ UNCHANGED <<shared, input, last, adapter, calls>>

NextBuild == \E e \in Endpoints : BuildEndpoint(e)

SpecBuild == InitBuild /\ [][NextBuild]_vars

---------------------------------------------------------------------------
(* Spec: calls of handleGRPCRequest, interleaved, on one adapter that               *)
(* newPathWrapper constructed.                                                     *)

\* The parameters of the adapters the calls run on.
CallParams ==
    {Param(<<"s">>, "query", <<>>),
     Param(<<"r", "-", "s">>, "query", <<>>),
     Param(<<"r", "-", "s">>, "path", <<>>),
     Param(<<"e">>, "header", <<Str("first"), Str("second")>>),
     Param(<<"a", "-", "b", "-", "c">>, "header", <<>>),
     Param(<<"m">>, "body", <<>>)}

\* Every adapter newPathWrapper returns for a map of these parameters.
Adapters ==
    {made.adapter :
        made \in UNION {{newPathWrapper(SharedState.httpClient, SharedState.swaggerClient,
                                        HttpMethodOf("A"), SwaggerPathOf("A"), order,
                                        SharedState.method) :
                             order \in IterationOrders(parameters)} :
                        parameters \in ParameterMaps(CallParams)}}
    \ {NilAdapter}

\* The messages a call receives: one with every field set, one with every field at
\* its zero value (the repeated field empty), one with an enum ordinal below zero.
FullMessage ==
    [NewMessage(InputType) EXCEPT
        ![<<"s">>] = Str("foo"),
        ![<<"r", "_", "s">>] = Slice(<<Str("foo"), Str("bar")>>),
        ![<<"e">>] = I32(1),
        ![<<"a", "_", "b", "_", "c">>] = I32(1234),
        ![<<"o">>] = SubMessage("str"),
        ![<<"m">>] = MapOf((Str("bar") :> I32(1)) @@ (Str("foo") :> I32(2))),
        ![<<"n">>] = MapOf((I32(1) :> I32(1)))]

NegativeMessage ==
    [FullMessage EXCEPT ![<<"s">>] = Str("bar"), ![<<"e">>] = I32(0 - 1),
                        ![<<"r", "_", "s">>] = Slice(<<Str("bar")>>)]

CallMessages == {FullMessage, NewMessage(InputType), NegativeMessage}

\* The response bodies the transport returns: a JSON object of the output type, one
\* with a field the output type does not have, and one that is no JSON.
ResponseBodies ==
    {[wellFormed |-> TRUE, v |-> "ok", extra |-> FALSE],
     [wellFormed |-> TRUE, v |-> "ok", extra |-> TRUE],
     [wellFormed |-> FALSE, v |-> "", extra |-> FALSE]}

RecvErrors == {Nil, "recv failed"}
TransportErrors == {Nil, "transport failed"}
SendErrors == {Nil, "send failed"}

Calls == {"c1", "c2"}

Init ==
    /\ adapter \in Adapters
    /\ calls = [c \in Calls |-> NewCall]
    /\ input = Unused
    /\ last = Unused
    /\ endpoints = Unused
    /\ shared = Unused

\* handleGRPCRequest receiving into one input message that the adapter keeps for
\* all its calls, instead of a message of the call.
Receive_SharedMessage(c) ==
    /\ calls[c].pc = "start"
    /\ \E message \in CallMessages, err \in RecvErrors :
           calls' = [d \in Calls |->
                        IF d = c THEN RecvMsg(calls[c], message, err)
                        ELSE IF err = Nil /\ calls[d].pc \notin {"start", "returned", "panicked"}
                        THEN [calls[d] EXCEPT !.protoIn = message]
                        ELSE calls[d]]
    /\ UNCHANGED <<adapter, input, last, endpoints, shared>>

\* The start of handleGRPCRequest: a new input message of the call, and RecvMsg
\* into it.
Receive(c) ==
    /\ calls[c].pc = "start"
    /\ \E message \in CallMessages, err \in RecvErrors :
           calls' = [calls EXCEPT ![c] = RecvMsg(calls[c], message, err)]
    /\ UNCHANGED <<adapter, input, last, endpoints, shared>>

CallSubmit(c) ==
    /\ calls[c].pc = "submit"
    /\ calls' = [calls EXCEPT ![c] = Submit(calls[c])]
    /\ UNCHANGED <<adapter, input, last, endpoints, shared>>

WriteParam(c) ==
    /\ calls[c].pc = "writers"
    /\ Len(calls[c].ran) < Len(adapter.paramWriters)
    /\ \E setErr \in SetErrors :
           calls' = [calls EXCEPT ![c] = WriterRound(adapter, calls[c], setErr)]
    /\ UNCHANGED <<adapter, input, last, endpoints, shared>>

SendRequest(c) ==
    /\ calls[c].pc = "writers"
    /\ Len(calls[c].ran) = Len(adapter.paramWriters)
    /\ \E body \in ResponseBodies, err \in TransportErrors :
           calls' = [calls EXCEPT ![c] = Transport(calls[c], body, err)]
    /\ UNCHANGED <<adapter, input, last, endpoints, shared>>

ReadAndReturn(c) ==
    /\ calls[c].pc = "read"
    /\ LET read == ReadResponse(adapter, calls[c].body)
       IN  calls' = [calls EXCEPT ![c] = SubmitReturned(calls[c], read.message, read.err)]
    /\ UNCHANGED <<adapter, input, last, endpoints, shared>>

Send(c) ==
    /\ calls[c].pc = "send"
    /\ \E err \in SendErrors : calls' = [calls EXCEPT ![c] = SendMsg(calls[c], err)]
    /\ UNCHANGED <<adapter, input, last, endpoints, shared>>

Next ==
    \E c \in Calls :
        \/ Receive(c)
        \/ CallSubmit(c)
        \/ WriteParam(c)
        \/ SendRequest(c)
        \/ ReadAndReturn(c)
        \/ Send(c)

Spec == Init /\ [][Next]_vars

---------------------------------------------------------------------------
(* SpecOrder: one map of parameters and one input message; newPathWrapper ranges   *)
(* over the map twice, each time in an order of Go's choosing, and the request     *)
(* writer of each adapter is run on the message and a new request.                 *)

\* The parameters of the maps: those of the calls and a second body parameter.
OrderParams == CallParams \cup {Param(<<"o">>, "body", <<>>)}

Runs == {"first", "second"}

NotRun == [ran |-> FALSE, order |-> <<>>, panic |-> FALSE, err |-> Nil, request |-> NewRequest]

InitOrder ==
    /\ input \in {[parameters |-> parameters, message |-> message] :
                      parameters \in ParameterMaps(OrderParams), message \in CallMessages}
    /\ last = [run \in Runs |-> NotRun]
    /\ endpoints = Unused
    /\ shared = Unused
    /\ adapter = Unused
    /\ calls = Unused

\* newPathWrapper over the map in one iteration order, then the request writer of
\* the adapter on the message.
AssembleRequest(run) ==
    /\ ~last[run].ran
    /\ \E order \in IterationOrders(input.parameters) :
           LET made == newPathWrapper(SharedState.httpClient, SharedState.swaggerClient,
                                      HttpMethodOf("A"), SwaggerPathOf("A"), order,
                                      SharedState.method)
               out == getRequestWriter(made.adapter, input.message, NewRequest)
           IN  /\ made.err = Nil
               /\ last' = [last EXCEPT ![run] =
                               [ran |-> TRUE, order |-> order, panic |-> out.panic,
                                err |-> out.err, request |-> out.request]]
    /\ UNCHANGED <<input, endpoints, shared, adapter, calls>>

NextOrder == \E run \in Runs : AssembleRequest(run)

SpecOrder == InitOrder /\ [][NextOrder]_vars

---------------------------------------------------------------------------
(* Properties of the converters, convertValues and the parameter writers (SpecConv). *)

\* The converter and the raw field value of the input under test.
InputConverter == getStringConverter(input.fieldDesc, input.param)
InputRawValue == input.message[input.fieldDesc.name]
InputIsSlice == input.fieldDesc.repeated /\ ~input.fieldDesc.isMap

\* C1: convertValues on a repeated field that is no map returns one entry per
\* element, the i-th being toString of the i-th element; on a singular field or a
\* map it returns exactly one entry, toString of the whole field value.  (It panics
\* exactly when one of these calls of toString does.)
C1_ConvertValuesShape ==
    last.op = "convertValues" =>
        IF InputIsSlice
        THEN LET elements == InputRawValue.v
             IN  /\ last.strings.panic =
                        (\E i \in 1..Len(elements) : toString(InputConverter, elements[i]).panic)
                 /\ ~last.strings.panic =>
                        /\ Len(last.strings.values) = Len(elements)
                        /\ \A i \in 1..Len(elements) :
                               last.strings.values[i] = toString(InputConverter, elements[i]).s
        ELSE /\ last.strings.panic = toString(InputConverter, InputRawValue).panic
             /\ ~last.strings.panic =>
                    last.strings.values = <<toString(InputConverter, InputRawValue).s>>

\* A repeated string field of two different elements, converted in order.
C1_Witness ==
    /\ last.op = "convertValues"
    /\ InputIsSlice
    /\ InputRawValue = Slice(<<Str("foo"), Str("bar")>>)
    /\ last.strings = [panic |-> FALSE, values |-> <<"foo", "bar">>]

\* Whether the ordinal is a bad enum value for the parameter's Enum list: outside
\* its index range, or the index of an element that is no string.
BadOrdinal(param, ordinal) ==
    \/ ordinal < 0
    \/ ordinal >= Len(param.Enum)
    \/ param.Enum[ordinal + 1].t # "string"

InputIsEnum == input.fieldDesc.type = "TYPE_ENUM" /\ ~input.fieldDesc.isMap

\* C2: the enum converter returns the empty string, and returns normally, for every
\* ordinal outside the index range of param.Enum (below zero, or at or above its
\* length) and for every ordinal whose element is no string.
C2_EnumNeverFails ==
    (last.op = "toString" /\ InputIsEnum /\ BadOrdinal(input.param, last.arg.v)) =>
        last.result = Returned("")

\* C3: with an Enum list of strings, the enum converter returns Enum[k] for an
\* ordinal k with 0 <= k < len(Enum).
C3_EnumInRange ==
    (/\ last.op = "toString"
     /\ InputIsEnum
     /\ \A i \in 1..Len(input.param.Enum) : input.param.Enum[i].t = "string"
     /\ last.arg.v >= 0
     /\ last.arg.v < Len(input.param.Enum)) =>
        last.result = Returned(input.param.Enum[last.arg.v + 1].v)

\* The list ["first", "second"] and the ordinal 1 give "second".
C3_Witness ==
    /\ last.op = "toString"
    /\ InputIsEnum
    /\ input.param.Enum = <<Str("first"), Str("second")>>
    /\ last.arg = I32(1)
    /\ last.result = Returned("second")

\* C4: a "path" or "body" writer given one or more values returns what its one set
\* operation returns and writes the first value only: the request holds values[0]
\* as the path parameter of the name, or as the body, and nothing of the others.
C4_PathBodyFirstOnly ==
    (last.op = "paramWriter" /\ input.param.In \in {"path", "body"} /\ Len(last.values) >= 1) =>
        /\ ~last.wrote.panic
        /\ last.wrote.err = last.setErr
        /\ last.setErr = Nil =>
               IF input.param.In = "path"
               THEN last.wrote.request =
                        [NewRequest EXCEPT !.path = (input.param.Name :> last.values[1])]
               ELSE last.wrote.request =
                        [NewRequest EXCEPT !.body = [set |-> TRUE, content |-> last.values[1]]]

\* A path writer given ["a", "b"] that returned nil.
C4_Witness ==
    /\ last.op = "paramWriter"
    /\ input.param.In = "path"
    /\ last.values = <<"a", "b">>
    /\ last.wrote = Wrote([NewRequest EXCEPT !.path = (input.param.Name :> "a")], Nil)

---------------------------------------------------------------------------
(* Properties of newPathWrapper (SpecBuild). *)

\* Whether fieldName is name with every hyphen replaced by an underscore.
IsUnderscored(name, fieldName) ==
    /\ Len(fieldName) = Len(name)
    /\ \A i \in 1..Len(name) : fieldName[i] = (IF name[i] = "-" THEN "_" ELSE name[i])

\* Whether the input message type has a field for the parameter.
HasField(param) == \E fieldDesc \in InputType.fields : IsUnderscored(param.Name, fieldDesc.name)

\* The parameters the writers of a constructed adapter were made for.
WrittenParameters(e) ==
    {endpoints[e].adapter.paramWriters[i].paramWriter.param :
        i \in 1..Len(endpoints[e].adapter.paramWriters)}

Failed(e) == endpoints[e].built /\ endpoints[e].adapter = NilAdapter /\ endpoints[e].err # Nil
Constructed(e) == endpoints[e].built /\ endpoints[e].adapter # NilAdapter /\ endpoints[e].err = Nil

\* C6: every writer of a constructed adapter is bound to the field of the input
\* type named as its parameter with each hyphen replaced by an underscore, one
\* writer per parameter of the map; an endpoint with a parameter that has
\* no such field fails with an error and a nil adapter, and only such an endpoint
\* fails for a missing field; a failure leaves what the endpoints share as it was,
\* and whether an endpoint is constructed, and with which writers, depends on its
\* own parameters only, whatever became of its sibling.
C6_BindByName ==
    /\ shared = SharedState
    /\ \A e \in Endpoints :
          /\ endpoints[e].built => (Failed(e) \/ Constructed(e))
          /\ Constructed(e) =>
                /\ Len(endpoints[e].adapter.paramWriters) = Cardinality(endpoints[e].parameters)
                /\ WrittenParameters(e) = endpoints[e].parameters
                /\ \A i \in 1..Len(endpoints[e].adapter.paramWriters) :
                       LET bound == endpoints[e].adapter.paramWriters[i]
                       IN  /\ bound.fieldDesc \in InputType.fields
                           /\ IsUnderscored(bound.paramWriter.param.Name, bound.fieldDesc.name)
          /\ (\E param \in endpoints[e].parameters : ~HasField(param)) => Failed(e)
          /\ endpoints[e].err = "Could not find proto field" =>
                 \E param \in endpoints[e].parameters : ~HasField(param)
          /\ \A sibling \in Endpoints :
                 (endpoints[e].built /\ endpoints[sibling].built
                  /\ endpoints[e].parameters = endpoints[sibling].parameters) =>
                     /\ Constructed(e) = Constructed(sibling)
                     /\ Constructed(e) =>
                            {endpoints[e].adapter.paramWriters[i] :
                                 i \in 1..Len(endpoints[e].adapter.paramWriters)} =
                            {endpoints[sibling].adapter.paramWriters[i] :
                                 i \in 1..Len(endpoints[sibling].adapter.paramWriters)}

\* An endpoint failed for a parameter without a field, and its sibling was
\* constructed with a hyphenated parameter bound to the underscored field.
C6_Witness ==
    /\ Failed("A")
    /\ endpoints["A"].err = "Could not find proto field"
    /\ Constructed("B")
    /\ \E i \in 1..Len(endpoints["B"].adapter.paramWriters) :
           /\ endpoints["B"].adapter.paramWriters[i].paramWriter.param.Name =
                  <<"a", "-", "b", "-", "c">>
           /\ endpoints["B"].adapter.paramWriters[i].fieldDesc.name = <<"a", "_", "b", "_", "c">>

\* Whether a parameter is one newPathWrapper cannot translate: its location is none
\* of query, header, path and body, or its field is no map and is of type bytes,
\* group or a type the converter does not know.
SupportedLocations == {"query", "header", "path", "body"}
SupportedTypes == NumericTypes \cup {"TYPE_MESSAGE", "TYPE_STRING", "TYPE_ENUM"}

Unsupported(param) ==
    \/ param.In \notin SupportedLocations
    \/ \E fieldDesc \in InputType.fields :
           /\ IsUnderscored(param.Name, fieldDesc.name)
           /\ ~fieldDesc.isMap
           /\ fieldDesc.type \notin SupportedTypes

\* C7: an adapter is returned only if no parameter is unsupported; an unsupported
\* parameter makes newPathWrapper return an error and no adapter; so every writer
\* of a constructed adapter holds a writer of a supported location and one of the
\* five converters.
C7_UnsupportedRejected ==
    \A e \in Endpoints :
        /\ (\E param \in endpoints[e].parameters : Unsupported(param)) => Failed(e)
        /\ Constructed(e) =>
               \A i \in 1..Len(endpoints[e].adapter.paramWriters) :
                   LET bound == endpoints[e].adapter.paramWriters[i]
                   IN  /\ bound.paramWriter.err = Nil
                       /\ bound.paramWriter.writer \in SupportedLocations
                       /\ bound.paramWriter.writer = bound.paramWriter.param.In
                       /\ bound.stringConverter.err = Nil
                       /\ bound.stringConverter.conv \in
                              {"map", "message", "numeric", "string", "enum"}
                       /\ ~bound.fieldDesc.isMap => bound.fieldDesc.type \in SupportedTypes

\* One endpoint rejected for a formData parameter, the other for a bytes field.
C7_Witness ==
    /\ Failed("A")
    /\ endpoints["A"].err = "formData parameters are not supported"
    /\ Failed("B")
    /\ endpoints["B"].err = "bytes not implemented"

---------------------------------------------------------------------------
(* Properties of handleGRPCRequest (Spec). *)

\* The names of the adapter's parameters of a location.
NamesIn(location) ==
    {adapter.paramWriters[i].paramWriter.param.Name :
        i \in {j \in 1..Len(adapter.paramWriters) :
                   adapter.paramWriters[j].paramWriter.param.In = location}}

C8_RecvFailureStops ==
    \A c \in Calls :
        calls[c].recvErr # Nil =>
            /\ calls[c].pc = "returned"
            /\ calls[c].ret = calls[c].recvErr
            /\ calls[c].submits = 0
            /\ calls[c].ran = <<>>
            /\ calls[c].httpSent = 0
            /\ calls[c].sends = 0

\* A call returned the error of RecvMsg while the other call went on to Submit.
C8_Witness ==
    /\ calls["c1"].pc = "returned"
    /\ calls["c1"].recvErr = "recv failed"
    /\ calls["c1"].ret = "recv failed"
    /\ calls["c2"].submits = 1

\* C9: the writers run are paramWriters[0], paramWriters[1], ... in that order;
\* a writer that returned an error is the last one run, its error is what the
\* request writer, Submit and the call return, and no HTTP request is sent; an HTTP
\* request is sent only after every writer ran and returned nil.
C9_WritersInOrderFirstErrorStops ==
    \A c \in Calls :
        /\ Len(calls[c].ran) <= Len(adapter.paramWriters)
        /\ \A i \in 1..Len(calls[c].ran) :
               /\ calls[c].ran[i].index = i
               /\ calls[c].ran[i].err # Nil =>
                      /\ i = Len(calls[c].ran)
                      /\ calls[c].pc = "returned"
                      /\ calls[c].submitErr = calls[c].ran[i].err
                      /\ calls[c].ret = calls[c].ran[i].err
                      /\ calls[c].httpSent = 0
                      /\ calls[c].sends = 0
        /\ calls[c].httpSent > 0 =>
               /\ Len(calls[c].ran) = Len(adapter.paramWriters)
               /\ \A i \in 1..Len(calls[c].ran) :
                      calls[c].ran[i].err = Nil /\ ~calls[c].ran[i].panic

\* Of two writers the first returned an error: the second never ran and the call
\* returned the error.
C9_Witness ==
    /\ Len(adapter.paramWriters) = 2
    /\ Len(calls["c1"].ran) = 1
    /\ calls["c1"].ran[1].err = "set failed"
    /\ calls["c1"].pc = "returned"
    /\ calls["c1"].ret = "set failed"

\* C10: a call invokes Submit at most once and sends at most one message, and
\* sends it only after RecvMsg, Submit and the decoding of the response returned
\* no error, the message being the decoded response; a call in which one of them
\* returned an error has returned that error and sent nothing.
C10_AtMostOnceNoPartialResponse ==
    \A c \in Calls :
        /\ calls[c].submits <= 1
        /\ calls[c].httpSent <= 1
        /\ calls[c].sends <= 1
        /\ calls[c].sends = 1 =>
               /\ calls[c].recvErr = Nil
               /\ calls[c].submits = 1
               /\ calls[c].httpSent = 1
               /\ calls[c].submitErr = Nil
               /\ calls[c].body.wellFormed
               /\ calls[c].sent = [NewMessage(OutputType) EXCEPT ![<<"v">>] = Str(calls[c].body.v)]
        /\ (calls[c].recvErr # Nil \/ calls[c].submitErr # Nil) =>
               /\ calls[c].pc = "returned"
               /\ calls[c].sends = 0
               /\ calls[c].ret = (IF calls[c].recvErr # Nil THEN calls[c].recvErr
                                  ELSE calls[c].submitErr)
        /\ (calls[c].httpSent = 1 /\ calls[c].pc \in {"send", "returned"}
            /\ calls[c].submitErr = Nil) => calls[c].body.wellFormed
        /\ (calls[c].pc = "returned" /\ calls[c].httpSent = 1 /\ ~calls[c].body.wellFormed
            /\ calls[c].submitErr # "transport failed") =>
               calls[c].ret = "unmarshal failed"

\* One call sent its decoded response; the other returned the error of decoding
\* its response and sent nothing.
C10_Witness ==
    /\ calls["c1"].pc = "returned"
    /\ calls["c1"].sends = 1
    /\ calls["c1"].sent[<<"v">>] = Str("ok")
    /\ calls["c2"].pc = "returned"
    /\ calls["c2"].httpSent = 1
    /\ calls["c2"].ret = "unmarshal failed"
    /\ calls["c2"].sends = 0

\* A step leaves the adapter as newPathWrapper constructed it.
C11_AdapterUnchanged == adapter' = adapter

\* A step is a step of one call: the state of every other call is as it was.
C11_OneCallPerStep == \E c \in Calls : \A d \in Calls \ {c} : calls'[d] = calls[d]

\* What a call assembled and sent is what its own input message and its own
\* response body give.
C11_OwnInputsOnly ==
    \A c \in Calls :
        /\ (/\ calls[c].submits = 1
            /\ calls[c].pc # "panicked"
            /\ Len(calls[c].ran) = Len(adapter.paramWriters)
            /\ \A i \in 1..Len(calls[c].ran) : calls[c].ran[i].err = Nil) =>
               calls[c].request = getRequestWriter(adapter, calls[c].protoIn, NewRequest).request
        /\ calls[c].pc = "send" => calls[c].protoOut = ReadResponse(adapter, calls[c].body).message
        /\ calls[c].sends = 1 => calls[c].sent = ReadResponse(adapter, calls[c].body).message

\* C11: whatever the interleaving of the calls of handleGRPCRequest on one adapter,
\* no step changes the adapter (httpMethod, swaggerPath, paramWriters and the
\* message types stay as constructed); a step of one call leaves the input
\* message, the request, the output message and every other state of the other
\* calls as they were; the request a call has assembled once all its writers
\* returned nil is the one its own input message gives, and the message it sent is
\* the decoding of the body its own transport returned.
C11_CallsIndependent ==
    /\ []C11_OwnInputsOnly
    /\ [][C11_AdapterUnchanged /\ C11_OneCallPerStep]_vars

\* Two calls interleaved on an adapter of two writers, with different input
\* messages and different response bodies: each assembled the request of its own
\* message, one sent its own decoded response and the other returned its own
\* decoding error.
C11_Witness ==
    /\ Len(adapter.paramWriters) = 2
    /\ calls["c1"].protoIn = FullMessage
    /\ calls["c2"].protoIn = NegativeMessage
    /\ calls["c1"].httpSent = 1
    /\ calls["c2"].httpSent = 1
    /\ calls["c1"].request # calls["c2"].request
    /\ calls["c1"].request = getRequestWriter(adapter, FullMessage, NewRequest).request
    /\ calls["c2"].request = getRequestWriter(adapter, NegativeMessage, NewRequest).request
    /\ calls["c1"].sends = 1
    /\ calls["c1"].sent[<<"v">>] = Str("ok")
    /\ calls["c2"].ret = "unmarshal failed"

\* The JSON object of the entries of a map of the model with string keys, written
\* out entry by entry: "bar" before "foo", the value 1 or 2.
C12_Entry(entries, key) ==
    IF Str(key) \notin DOMAIN entries THEN ""
    ELSE "\"" \o key \o "\":" \o (IF entries[Str(key)] = I32(1) THEN "1" ELSE "2")

C12_Object(entries) ==
    "{" \o C12_Entry(entries, "bar")
        \o (IF {Str("bar"), Str("foo")} \subseteq DOMAIN entries THEN "," ELSE "")
        \o C12_Entry(entries, "foo") \o "}"

C12_FixtureReached ==
    /\ last.op = "toString"
    /\ last.arg = MapOf((Str("bar") :> I32(1)) @@ (Str("foo") :> I32(2)))
    /\ last.result = Returned("{\"bar\":1,\"foo\":2}")

\* No writer a call ran panicked, and no call ended in a panic.
C13_NoWriterPanicked ==
    \A c \in Calls :
        /\ calls[c].pc # "panicked"
        /\ \A i \in 1..Len(calls[c].ran) : ~calls[c].ran[i].panic

\* Writer i of the adapter is the writer of a path or body parameter bound to a
\* repeated field that is no map, and the field holds no element in the message.
C13_EmptyRepeated(message, i) ==
    LET bound == adapter.paramWriters[i]
    IN  /\ bound.paramWriter.writer \in {"path", "body"}
        /\ IsRepeated(bound.fieldDesc) /\ ~IsMap(bound.fieldDesc)
        /\ GetField(message, bound.fieldDesc) = Slice(<<>>)

\* C13: every writer of a constructed adapter, run on a decoded input message,
\* completes by returning nil or an error and never panics.  Stated for the case
\* the claim names: the writer of a path or body parameter bound to a repeated
\* field, run by a call on a message in which the field has no element, completed
\* without a panic.
C13_EmptyRepeatedCompletes ==
    \A c \in Calls :
        \A i \in 1..Len(calls[c].ran) :
            C13_EmptyRepeated(calls[c].protoIn, i) => ~calls[c].ran[i].panic

\* No two parameters of the map write the same part of the request: at most one is
\* a body parameter, and no two have the same name and location.
C14_DistinctSlots ==
    \A p, q \in input.parameters :
        p # q => /\ ~(p.In = "body" /\ q.In = "body")
                 /\ ~(p.In = q.In /\ p.Name = q.Name)

\* The two runs assembled the same request, or both panicked.
C14_SameOutcome ==
    /\ last["first"].panic = last["second"].panic
    /\ last["first"].err = last["second"].err
    /\ ~last["first"].panic => last["first"].request = last["second"].request

\* C14: the request assembled is determined by the set of parameters: for every
\* two orders in which newPathWrapper appended the writers of the same parameters,
\* the two writer lists run on the same input message gave the same outbound
\* request (the same query values, headers, path values and body).
C14_OrderIndependent ==
    (last["first"].ran /\ last["second"].ran) => C14_SameOutcome

\* The same for the maps in which no two parameters write the same part of the
\* request.
C14_OrderIndependentOnDistinctSlots ==
    (C14_DistinctSlots /\ last["first"].ran /\ last["second"].ran) => C14_SameOutcome

\* Two parameters writing different parts of the request were appended in the two
\* orders, and the two requests are the same.
C14_DistinctSlotsReached ==
    /\ C14_DistinctSlots
    /\ Cardinality(input.parameters) = 2
    /\ last["first"].ran /\ last["second"].ran
    /\ last["first"].order # last["second"].order
    /\ ~last["first"].panic
    /\ last["first"].request = last["second"].request
    /\ last["first"].request # NewRequest

====
